---- MODULE Spec2Model ----
(***************************************************************************)
(* A model of src/server.py: a Flask application that stores uploaded CSV  *)
(* files in one folder (upload_file), lists them (list_files) and serves   *)
(* one of them as a chronologically ordered candlestick series (get_data). *)
(*                                                                         *)
(* File names and column names are sequences of one-character strings, so  *)
(* that str.lower, str.rsplit and secure_filename are computed character   *)
(* by character.  Data cells are strings; a missing cell is "".            *)
(***************************************************************************)
EXTENDS Integers, Sequences, FiniteSets, TLC

VARIABLES
    uploads,   \* the upload folder: stored file name -> file content
    req,       \* the request being answered
    resp,      \* the answer to req
    index,     \* get_data: df.index after sort_values, before reset_index
    acked      \* history: the file names upload_file answered 200 for

vars == <<uploads, req, resp, index, acked>>

Range(s) == {s[i] : i \in DOMAIN s}

----------------------------------------------------------------------------
(* Strings *)

LowerAZ == <<"a","b","c","d","e","f","g","h","i","j","k","l","m",
             "n","o","p","q","r","s","t","u","v","w","x","y","z">>
UpperAZ == <<"A","B","C","D","E","F","G","H","I","J","K","L","M",
             "N","O","P","Q","R","S","T","U","V","W","X","Y","Z">>
Digits  == <<"0","1","2","3","4","5","6","7","8","9">>

\* str.lower on one character.
LowerChar(c) ==
    IF c \in Range(UpperAZ)
    THEN LowerAZ[CHOOSE i \in DOMAIN UpperAZ : UpperAZ[i] = c]
    ELSE c

\* str.lower
lower(s) == [i \in DOMAIN s |-> LowerChar(s[i])]

\* The position of the last "." of s, 0 when s has none.
LastDot(s) ==
    IF \E i \in DOMAIN s : s[i] = "."
    THEN CHOOSE i \in DOMAIN s : s[i] = "." /\ \A j \in DOMAIN s : j > i => s[j] # "."
    ELSE 0

\* filename.rsplit('.', 1)[1], for a filename that holds a "."
Extension(s) == SubSeq(s, LastDot(s) + 1, Len(s))

ALLOWED_EXTENSIONS == {<<"c","s","v">>}

allowed_file(filename) ==
    /\ LastDot(filename) # 0
    /\ lower(Extension(filename)) \in ALLOWED_EXTENSIONS

----------------------------------------------------------------------------
(* werkzeug.utils.secure_filename, on ASCII names under a POSIX os.sep *)

Whitespace == {" "}

\* filename.replace(os.sep, " ")
ReplaceSep(s) == [i \in DOMAIN s |-> IF s[i] = "/" THEN " " ELSE s[i]]

\* "_".join(s.split()): runs of whitespace become one "_", none at the ends.
RECURSIVE JoinWords(_, _)
JoinWords(s, started) ==
    IF s = <<>> THEN <<>>
    ELSE IF Head(s) \in Whitespace
         THEN IF started /\ \E i \in DOMAIN s : s[i] \notin Whitespace
              THEN <<"_">> \o JoinWords(Tail(s), FALSE)
              ELSE JoinWords(Tail(s), FALSE)
         ELSE <<Head(s)>> \o JoinWords(Tail(s), TRUE)

\* The characters _filename_ascii_strip_re keeps: [A-Za-z0-9_.-]
SafeChars == Range(LowerAZ) \cup Range(UpperAZ) \cup Range(Digits) \cup {"_", ".", "-"}

AsciiStrip(s) == SelectSeq(s, LAMBDA c : c \in SafeChars)

\* str.strip("._")
RECURSIVE StripDots(_)
StripDots(s) ==
    IF s = <<>> THEN s
    ELSE IF Head(s) \in {".", "_"} THEN StripDots(Tail(s))
    ELSE IF s[Len(s)] \in {".", "_"} THEN StripDots(SubSeq(s, 1, Len(s) - 1))
    ELSE s

secure_filename(filename) == StripDots(AsciiStrip(JoinWords(ReplaceSep(filename), FALSE)))

----------------------------------------------------------------------------
(* Names *)

None == <<"<", "N", "o", "n", "e", ">">>

DEFAULT_NIFTY_FILE == <<"N","I","F","T","Y","_","_","1","D","_","_",".","c","s","v">>

Datetime == <<"D","a","t","e","t","i","m","e">>
Open     == <<"O","p","e","n">>
High     == <<"H","i","g","h">>
Low      == <<"L","o","w">>
Close    == <<"C","l","o","s","e">>

\* column_mapping of get_data: key -> standard name
column_mapping ==
    (<<"d","a","t","e","t","i","m","e">> :> Datetime) @@
    (<<"o","p","e","n">> :> Open) @@
    (<<"h","i","g","h">> :> High) @@
    (<<"l","o","w">> :> Low) @@
    (<<"c","l","o","s","e">> :> Close) @@
    (<<"d","a","t","e">> :> Datetime)

required_cols == <<Datetime, Open, High, Low, Close>>

----------------------------------------------------------------------------
(* Responses.  One record shape for every answer:                          *)
(*   status  the HTTP status code                                          *)
(*   kind    which jsonify call produced the body                          *)
(*   name    the file name the message quotes                              *)
(*   files   list_files: the names listed                                  *)
(*   missing, found   the schema message: missing_cols and list(columns)   *)
(*   exc     the exception whose str() the 500 message quotes              *)
(*   raw, pos, col    what that str() names: the raw cell, the 0-based     *)
(*           position, the column ("" / -1 / <<>> when it names none)      *)
(*   data    chart_data                                                    *)
(***************************************************************************)

Response(status, kind) ==
    [status |-> status, kind |-> kind, name |-> <<>>, files |-> {},
     missing |-> <<>>, found |-> <<>>, exc |-> "", raw |-> "", pos |-> -1,
     col |-> <<>>, data |-> <<>>]

NoResponse == Response(0, "none")

\* jsonify({"error": f"Error processing CSV: {str(e)}"}), 500
ProcessingError(exc, raw, pos) ==
    [Response(500, "Error processing CSV") EXCEPT !.exc = exc, !.raw = raw, !.pos = pos]

----------------------------------------------------------------------------
(* pandas, as get_data uses it.  A file content is                         *)
(*   [header |-> the file's header line, rows |-> its data lines]          *)
(* each row holding one cell per header entry; header = <<>> is a file     *)
(* with no line at all.                                                    *)
(***************************************************************************)

\* The cells read_csv reads as missing (NaN).
NaValues == {""}

\* Date cells pd.to_datetime parses, all of one layout, with the time of
\* day they denote on 1970-01-01: whole seconds s and microseconds us.
\* Any other cell that is not missing is unparseable.
TimestampLiterals ==
    ("1970-01-01 00:00:01.0000" :> [s |-> 1, us |-> 0]) @@
    ("1970-01-01 00:00:01.0004" :> [s |-> 1, us |-> 400]) @@
    ("1970-01-01 00:00:02.0000" :> [s |-> 2, us |-> 0])

\* Numeric cells float() converts, with their values.  "inf" converts to
\* infinity, a missing cell is NaN already, any other cell raises ValueError.
FloatLiterals ==
    ("100" :> 100) @@ ("110" :> 110) @@ ("95" :> 95) @@ ("105" :> 105) @@ ("7" :> 7)

Fin(v) == [k |-> "finite", v |-> v]
NaN    == [k |-> "nan", v |-> 0]
Inf    == [k |-> "inf", v |-> 0]

\* float(cell) raises
FloatRaises(cell) ==
    cell \notin NaValues /\ cell # "inf" /\ cell \notin DOMAIN FloatLiterals

\* float(cell), for a cell it converts
float(cell) ==
    IF cell \in NaValues THEN NaN
    ELSE IF cell = "inf" THEN Inf
    ELSE Fin(FloatLiterals[cell])

\* read_csv names a repeated header entry name.1, name.2, ...
MangleDupes(header) ==
    [i \in DOMAIN header |->
        LET k == Cardinality({j \in 1..(i - 1) : header[j] = header[i]})
        IN IF k = 0 THEN header[i] ELSE header[i] \o <<".", Digits[k + 1]>>]

\* df.columns = [col.lower() for col in df.columns]
LowerColumns(columns) == [i \in DOMAIN columns |-> lower(columns[i])]

\* df.rename(columns={k: v for k, v in column_mapping.items() if k in df.columns}):
\* every column whose label is a key gets the key's standard name; two
\* columns may end with the same label.
rename(columns) ==
    [i \in DOMAIN columns |->
        IF columns[i] \in DOMAIN column_mapping
        THEN column_mapping[columns[i]] ELSE columns[i]]

\* The columns of the frame after lower-casing and renaming.
Reconciled(header) == rename(LowerColumns(MangleDupes(header)))

\* missing_cols stopping at the first missing column.
missing_cols_first_only(columns) ==
    LET all == SelectSeq(required_cols, LAMBDA c : c \notin Range(columns))
    IN IF all = <<>> THEN all ELSE <<Head(all)>>

\* [col for col in required_cols if col not in df.columns]
missing_cols(columns) == SelectSeq(required_cols, LAMBDA c : c \notin Range(columns))

\* The positions of the columns labelled c.
Positions(columns, c) == {i \in DOMAIN columns : columns[i] = c}

\* df[c] is a Series when one column is labelled c, a DataFrame when several are.
IsSeries(columns, c) == Cardinality(Positions(columns, c)) = 1

Column(columns, rows, c) ==
    LET j == CHOOSE i \in Positions(columns, c) : TRUE
    IN [r \in DOMAIN rows |-> rows[r][j]]

\* pd.to_datetime(series) raises at the first cell that is neither missing
\* nor a date: the rows it cannot parse.
Unparseable(cells) ==
    {r \in DOMAIN cells : cells[r] \notin NaValues /\ cells[r] \notin DOMAIN TimestampLiterals}

\* The rows pd.to_datetime turns to NaT, whose timestamp() raises.
NaTRows(cells) == {r \in DOMAIN cells : cells[r] \in NaValues}

Min(S) == CHOOSE x \in S : \A y \in S : x <= y

\* x.timestamp() * 1000 in thousandths of a millisecond (the float has a
\* fractional part where the cell has sub-millisecond digits).
TimestampMs1000(cell) ==
    TimestampLiterals[cell].s * 1000000 + TimestampLiterals[cell].us

\* int(row['Datetime']): truncation toward zero.
IntOf(ms1000) == IF ms1000 >= 0 THEN ms1000 \div 1000 ELSE -((-ms1000) \div 1000)

Orders(n) ==
    {p \in [1..n -> 1..n] : \A i, j \in 1..n : i # j => p[i] # p[j]}

\* sort_values left out: the rows stay in file order.
sort_values_omitted(keys) == {[i \in 1..Len(keys) |-> i]}

\* df.sort_values(by='Datetime'): kind defaults to 'quicksort', which orders
\* by the key and promises nothing about rows with equal keys.  The result
\* is the old index in its new order: any permutation that sorts the keys.
sort_values(keys) ==
    {p \in Orders(Len(keys)) :
        \A i \in 1..(Len(keys) - 1) : keys[p[i]] <= keys[p[i + 1]]}

OHLC == <<Open, High, Low, Close>>

\* The first of row['Open'], row['High'], row['Low'], row['Close'] whose
\* float() raises for this row, 0 when none does: a label two columns
\* share selects a Series (TypeError), a non-numeric cell is a ValueError.
FirstBadCol(columns, row) ==
    LET bad == {k \in DOMAIN OHLC :
                   \/ ~IsSeries(columns, OHLC[k])
                   \/ FloatRaises(row[CHOOSE i \in Positions(columns, OHLC[k]) : TRUE])}
    IN IF bad = {} THEN 0 ELSE Min(bad)

\* One entry of chart_data.
ChartRecord(columns, row, key) ==
    [x |-> IntOf(key),
     y |-> [k \in DOMAIN OHLC |->
               float(row[CHOOSE i \in Positions(columns, OHLC[k]) : TRUE])]]

\* The loop skipping the rows whose conversion raises (try/continue).
ChartData_skipping(columns, rows, keys, p) ==
    LET good == SelectSeq(p, LAMBDA r : FirstBadCol(columns, rows[r]) = 0)
    IN [Response(200, "chart_data") EXCEPT
           !.data = [i \in DOMAIN good |->
                        ChartRecord(columns, rows[good[i]], keys[good[i]])]]

\* The loop over df.iterrows(), the frame in the order p: chart_data, or the
\* exception of the first row (in that order) that has one.
ChartData(columns, rows, keys, p) ==
    LET badAt == {i \in DOMAIN p : FirstBadCol(columns, rows[p[i]]) # 0}
    IN IF badAt = {}
       THEN [Response(200, "chart_data") EXCEPT
                !.data = [i \in DOMAIN p |-> ChartRecord(columns, rows[p[i]], keys[p[i]])]]
       ELSE LET row == rows[p[Min(badAt)]]
                c   == OHLC[FirstBadCol(columns, row)]
            IN IF ~IsSeries(columns, c)
               THEN ProcessingError("TypeError: cannot convert the series to float", "", -1)
               ELSE ProcessingError("ValueError: could not convert string to float",
                                    row[CHOOSE i \in Positions(columns, c) : TRUE], -1)

\* jsonify({"error": f"CSV must contain '...' columns. Found: ..."}), 400
SchemaError(columns) ==
    [Response(400, "CSV must contain") EXCEPT
        !.missing = missing_cols(columns), !.found = columns]

\* The try block of get_data on a stored file: every answer it can give,
\* with the order the sort put the rows in (<<>> before the sort).
Transform(content) ==
    IF content.header = <<>>
    THEN {[resp |-> ProcessingError("EmptyDataError: No columns to parse from file", "", -1),
           index |-> <<>>]}
    ELSE
    LET columns == Reconciled(content.header)
        rows    == content.rows
    IN  IF missing_cols(columns) # <<>>
        THEN {[resp |-> SchemaError(columns), index |-> <<>>]}
        ELSE IF ~IsSeries(columns, Datetime)
        THEN {[resp |-> ProcessingError("ValueError: cannot assemble with duplicate keys", "", -1),
               index |-> <<>>]}
        ELSE
        LET cells == Column(columns, rows, Datetime)
        IN  IF Unparseable(cells) # {}
            THEN {[resp |-> ProcessingError("ValueError: time data is not a date",
                                            cells[Min(Unparseable(cells))],
                                            Min(Unparseable(cells)) - 1),
                   index |-> <<>>]}
            ELSE IF NaTRows(cells) # {}
            THEN {[resp |-> ProcessingError("ValueError: NaTType does not support timestamp", "", -1),
                   index |-> <<>>]}
            ELSE
            LET keys == [r \in DOMAIN rows |-> TimestampMs1000(cells[r])]
            IN  {[resp |-> ChartData(columns, rows, keys, p), index |-> p] :
                    p \in sort_values(keys)}

----------------------------------------------------------------------------
(* The requests the model sends *)

NoContent == [header |-> <<>>, rows |-> <<>>]

Request(op, part, filename, content) ==
    [op |-> op, part |-> part, filename |-> filename, content |-> content]

NoRequest == Request("none", FALSE, <<>>, NoContent)

\* File names a client uploads under; <<>> is a form sent with no file chosen.
UploadNames ==
    { <<>>,
      <<"a",".","c","s","v">>,
      <<"a"," ","b",".","C","S","V">>,
      <<".",".","/","a",".","c","s","v">>,
      <<"a",".","t","x","t">>,
      <<"c","s","v">>,
      DEFAULT_NIFTY_FILE }

\* The names /data/<filename> routes to get_data: not empty, without "/".
DataNames == {n \in UploadNames : n # <<>> /\ "/" \notin Range(n)}

CellFor(label, lr) ==
    IF label = Datetime THEN lr.dt
    ELSE IF label = Open THEN lr.o
    ELSE IF label = High THEN "110"
    ELSE IF label = Low THEN "95"
    ELSE IF label = Close THEN lr.c
    ELSE "7"

\* A data line under header: the cells of lr, one per header entry.
RowFor(header, lr) ==
    [i \in DOMAIN header |-> CellFor(Reconciled(header)[i], lr)]

MaxRows == 2

MaxSchemaRows == 1

SeqsUpTo(S, n) == UNION {[1..k -> S] : k \in 0..n}

DateCells == DOMAIN TimestampLiterals \cup {"abc", ""}

LogicalRows == [dt : DateCells, o : {"100", "abc", ""}, c : {"105", "110"}]

SchemaRows ==
    { [dt |-> "1970-01-01 00:00:01.0000", o |-> "100", c |-> "105"],
      [dt |-> "1970-01-01 00:00:02.0000", o |-> "abc", c |-> "105"] }

\* Header lines: for each standard field none, one or two spellings of it,
\* and an optional column the mapping does not know.
Headers ==
    { dv \o ov \o hv \o lv \o cv \o vv :
        dv \in { <<>>, << <<"d","a","t","e">> >>, << <<"D","a","t","e","t","i","m","e">> >>,
                 << <<"D","a","t","e">>, <<"d","a","t","e","t","i","m","e">> >> },
        ov \in { <<>>, << <<"o","p","e","n">> >>,
                 << <<"O","p","e","n">>, <<"O","P","E","N">> >>,
                 << <<"o","p","e","n">>, <<"o","p","e","n">> >> },
        hv \in { <<>>, << <<"H","I","G","H">> >> },
        lv \in { <<>>, << <<"l","o","w">> >> },
        cv \in { <<>>, << <<"C","l","o","s","e">> >> },
        vv \in { <<>>, << <<"V","o","l","u","m","e">> >> } }

FullHeader ==
    << <<"d","a","t","e">>, <<"o","p","e","n">>, <<"H","I","G","H">>,
       <<"l","o","w">>, <<"C","l","o","s","e">> >>

Table(header, lrs) ==
    [header |-> header, rows |-> [r \in DOMAIN lrs |-> RowFor(header, lrs[r])]]

\* The stored files get_data is run on.
Inputs ==
    {Table(h, lrs) : h \in Headers, lrs \in SeqsUpTo(SchemaRows, MaxSchemaRows)}
    \cup {Table(FullHeader, lrs) : lrs \in SeqsUpTo(LogicalRows, MaxRows)}

\* The files the clients of the server upload.
SampleContents ==
    { NoContent,
      Table(FullHeader, << [dt |-> "1970-01-01 00:00:02.0000", o |-> "100", c |-> "105"],
                           [dt |-> "1970-01-01 00:00:01.0000", o |-> "100", c |-> "105"] >>) }

----------------------------------------------------------------------------
(* The handlers *)

\* file.save(os.path.join(UPLOAD_FOLDER, filename))
Save(name, content) ==
    [n \in DOMAIN uploads \cup {name} |-> IF n = name THEN content ELSE uploads[n]]

upload_file(Contents) ==
    \E part \in BOOLEAN, filename \in UploadNames, content \in Contents :
        /\ ~part => filename = <<>> /\ content = NoContent
        /\ filename = <<>> => content = NoContent
        /\ req' = Request("upload", part, filename, content)
        /\ index' = <<>>
        /\ IF ~part
           THEN /\ resp' = Response(400, "No file part")
                /\ UNCHANGED <<uploads, acked>>
           ELSE IF filename = <<>>
           THEN /\ resp' = Response(400, "No selected file")
                /\ UNCHANGED <<uploads, acked>>
           ELSE IF allowed_file(filename)
           THEN /\ uploads' = Save(secure_filename(filename), content)
                /\ resp' = [Response(200, "uploaded successfully") EXCEPT
                               !.name = secure_filename(filename)]
                /\ acked' = acked \cup {filename}
           ELSE /\ resp' = Response(400, "Allowed file types are CSV")
                /\ UNCHANGED <<uploads, acked>>

list_files ==
    /\ req' = Request("files", FALSE, <<>>, NoContent)
    /\ resp' = [Response(200, "files") EXCEPT
                   !.files = {f \in DOMAIN uploads : allowed_file(f)}]
    /\ index' = <<>>
    /\ UNCHANGED <<uploads, acked>>

\* get_data joining the name as requested, without secure_filename.
DataPath_unsecured(filename) ==
    IF filename = None THEN DEFAULT_NIFTY_FILE ELSE filename

\* The file get_data opens: secure_filename of the name, the default for None.
DataPath(filename) ==
    secure_filename(IF filename = None THEN DEFAULT_NIFTY_FILE ELSE filename)

get_data ==
    \E filename \in DataNames \cup {None} :
        /\ req' = Request("data", FALSE, filename, NoContent)
        /\ IF DataPath(filename) \notin DOMAIN uploads
           THEN /\ resp' = [Response(404, "not found") EXCEPT
                               !.name = IF filename = None
                                        THEN DEFAULT_NIFTY_FILE ELSE filename]
                /\ index' = <<>>
           ELSE \E out \in Transform(uploads[DataPath(filename)]) :
                   /\ resp' = out.resp
                   /\ index' = out.index
        /\ UNCHANGED <<uploads, acked>>

----------------------------------------------------------------------------
(* The server: an empty upload folder, then requests in any order. *)

ServerInit ==
    /\ uploads = <<>>
    /\ req = NoRequest
    /\ resp = NoResponse
    /\ index = <<>>
    /\ acked = {}

ServerNext == upload_file(SampleContents) \/ list_files \/ get_data

ServerSpec == ServerInit /\ [][ServerNext]_vars

(* The transform: one file of Inputs stored under the default name, then   *)
(* requests for it.                                                        *)

Init ==
    /\ \E content \in Inputs : uploads = (DEFAULT_NIFTY_FILE :> content)
    /\ req = NoRequest
    /\ resp = NoResponse
    /\ index = <<>>
    /\ acked = {DEFAULT_NIFTY_FILE}

Next == get_data

Spec == Init /\ [][Next]_vars

----------------------------------------------------------------------------
(* What the properties speak of: the table a data request was answered     *)
(* from, and its fields, read off the file itself.                         *)

RequestedName == IF req.filename = None THEN DEFAULT_NIFTY_FILE ELSE req.filename

\* The last request was a data request for a stored file.
IsData == req.op = "data" /\ secure_filename(RequestedName) \in DOMAIN uploads

Served == uploads[secure_filename(RequestedName)]

Succeeded == IsData /\ resp.status = 200

\* The spellings the synonym table maps to the standard field c.
Synonyms(c) == {k \in DOMAIN column_mapping : column_mapping[k] = c}

TableColumns(content) == MangleDupes(content.header)

\* The columns of the table that, lower-cased, are a spelling of c.
FieldColumns(content, c) ==
    {i \in DOMAIN content.header : lower(TableColumns(content)[i]) \in Synonyms(c)}

RequiredFields == Range(required_cols)

MissingFields(content) == {c \in RequiredFields : FieldColumns(content, c) = {}}

\* Every required field is spelled by exactly one column.
CleanHeader(content) ==
    \A c \in RequiredFields : Cardinality(FieldColumns(content, c)) = 1

CellOf(content, r, c) == content.rows[r][CHOOSE i \in FieldColumns(content, c) : TRUE]

BadDateRows(content) ==
    {r \in DOMAIN content.rows :
        \E i \in FieldColumns(content, Datetime) :
            content.rows[r][i] \notin DOMAIN TimestampLiterals}

\* The rows whose date cell holds text that is no date.
NonDateRows(content) ==
    {r \in DOMAIN content.rows :
        \E i \in FieldColumns(content, Datetime) :
            /\ content.rows[r][i] \notin NaValues
            /\ content.rows[r][i] \notin DOMAIN TimestampLiterals}

BadNumberRows(content) ==
    {r \in DOMAIN content.rows :
        \E k \in DOMAIN OHLC : \E i \in FieldColumns(content, OHLC[k]) :
            FloatRaises(content.rows[r][i])}

\* The parsed timestamp of row r of a table whose dates all parse.
KeyOf(content, r) ==
    LET t == TimestampLiterals[CellOf(content, r, Datetime)]
    IN t.s * 1000000 + t.us

----------------------------------------------------------------------------
(* Properties *)

\* C1: whenever get_data succeeds, the chart records are ordered by
\* timestamp: x[i] <= x[i+1] for every consecutive pair.
C1_SortInvariant ==
    Succeeded =>
        \A i \in 1..(Len(resp.data) - 1) : resp.data[i].x <= resp.data[i + 1].x

\* C1 witness: a success on two rows the file holds latest first.
C1_Witness ==
    /\ Succeeded
    /\ Len(resp.data) = 2
    /\ KeyOf(Served, 1) > KeyOf(Served, 2)
    /\ resp.data[1].x < resp.data[2].x

\* The order a stable sort gives: by timestamp, rows of equal timestamp in
\* file order.
StableOrder(content) ==
    CHOOSE p \in Orders(Len(content.rows)) :
        \A i, j \in DOMAIN p :
            i < j => \/ KeyOf(content, p[i]) < KeyOf(content, p[j])
                     \/ KeyOf(content, p[i]) = KeyOf(content, p[j]) /\ p[i] < p[j]

\* The record the source builds from row r of a table with a clean header.
RecordOf(content, r) ==
    [x |-> IF KeyOf(content, r) >= 0 THEN KeyOf(content, r) \div 1000
           ELSE -((-KeyOf(content, r)) \div 1000),
     y |-> [k \in DOMAIN OHLC |-> float(CellOf(content, r, OHLC[k]))]]

\* C2: the sort is stable: whenever get_data succeeds, rows with equal
\* parsed timestamps appear in the output in their input order, so the
\* output is the records of the rows in the stable order.
C2_StableSort ==
    (Succeeded /\ CleanHeader(Served)) =>
        resp.data = [i \in DOMAIN Served.rows |-> RecordOf(Served, StableOrder(Served)[i])]

\* C3: a table that lacks a required field after lower-casing and synonym
\* renaming is answered with the schema error, which lists exactly the
\* absent required fields and the columns found, and no chart record.
C3_SchemaCompleteness ==
    (IsData /\ Served.header # <<>> /\ MissingFields(Served) # {}) =>
        /\ resp.status = 400
        /\ resp.kind = "CSV must contain"
        /\ Range(resp.missing) = MissingFields(Served)
        /\ Len(resp.missing) = Cardinality(MissingFields(Served))
        /\ Len(resp.found) = Len(Served.header)
        /\ \A i \in DOMAIN Served.header :
              LET col == lower(TableColumns(Served)[i])
              IN resp.found[i] =
                    IF col \in DOMAIN column_mapping THEN column_mapping[col] ELSE col
        /\ resp.data = <<>>

\* C3 witness: a one-row table missing two required fields, answered 400.
C3_Witness ==
    /\ IsData
    /\ Len(Served.rows) = 1
    /\ Cardinality(MissingFields(Served)) = 2
    /\ resp.status = 400

\* C4: when a row's Open, High, Low or Close cell is not numeric, the error
\* identifies the offending row index, the column name and the raw value.
C4_ParseErrorLocation ==
    (IsData /\ CleanHeader(Served) /\ BadDateRows(Served) = {}
            /\ BadNumberRows(Served) # {}) =>
        \E r \in BadNumberRows(Served), k \in DOMAIN OHLC :
            /\ FloatRaises(CellOf(Served, r, OHLC[k]))
            /\ resp.status # 200
            /\ resp.raw = CellOf(Served, r, OHLC[k])
            /\ resp.pos = r - 1
            /\ resp.col = OHLC[k]

\* C5: failures are classified by cause: a missing required column and an
\* unparseable datetime or numeric cell are client errors (4xx); only
\* another, internal failure is a server error (5xx).
C5_ErrorSeverity ==
    (IsData /\ Served.header # <<>>) =>
        /\ MissingFields(Served) # {} => resp.status \in 400..499
        /\ (MissingFields(Served) = {} /\ CleanHeader(Served)
              /\ BadDateRows(Served) = NonDateRows(Served)
              /\ (NonDateRows(Served) # {} \/ BadNumberRows(Served) # {}))
           => resp.status \in 400..499

\* C6: all or nothing: a success holds one chart record per data row; a
\* datetime or numeric cell that cannot be converted fails the whole
\* transform, and a failure carries no chart record.
C6_AllOrNothing ==
    IsData =>
        /\ resp.status = 200 =>
              /\ resp.kind = "chart_data"
              /\ Len(resp.data) = Len(Served.rows)
        /\ (BadDateRows(Served) # {} \/ BadNumberRows(Served) # {}) => resp.status # 200
        /\ resp.status # 200 => resp.data = <<>>

\* C6 witness: two rows, the first convertible, the second not; answered
\* with an error.
C6_Witness ==
    /\ IsData
    /\ CleanHeader(Served)
    /\ Len(Served.rows) = 2
    /\ 1 \notin BadDateRows(Served) \cup BadNumberRows(Served)
    /\ 2 \in BadNumberRows(Served)
    /\ resp.status = 500

\* C7: a table with all five required columns and no data row is answered
\* with an empty sequence of chart records, never with an error.
C7_EmptyInput ==
    (IsData /\ Served.header # <<>> /\ MissingFields(Served) = {}
            /\ Served.rows = <<>>) =>
        resp.status = 200 /\ resp.kind = "chart_data" /\ resp.data = <<>>

\* A column of the table is spelled k, case-insensitively.
HasColumn(content, k) ==
    \E i \in DOMAIN content.header : lower(TableColumns(content)[i]) = k

\* C8: with both a date and a datetime column, reconciliation succeeds and
\* the transform produces the chart records of the table's data rows.
C8_DateAndDatetime ==
    (IsData /\ HasColumn(Served, <<"d","a","t","e">>)
            /\ HasColumn(Served, <<"d","a","t","e","t","i","m","e">>)
            /\ \A c \in Range(OHLC) : Cardinality(FieldColumns(Served, c)) = 1
            /\ Served.rows # <<>>
            /\ BadDateRows(Served) = {} /\ BadNumberRows(Served) = {}) =>
        resp.status = 200 /\ Len(resp.data) = Len(Served.rows)

\* C9: on success every record's y holds exactly four finite numbers, the
\* open, high, low and close of its row, also when a required cell is blank.
C9_FiniteShape ==
    (Succeeded /\ CleanHeader(Served)) =>
        \A i \in DOMAIN resp.data :
            /\ Len(resp.data[i].y) = 4
            /\ \A k \in DOMAIN OHLC :
                  /\ resp.data[i].y[k].k = "finite"
                  /\ resp.data[i].y[k] = float(CellOf(Served, index[i], OHLC[k]))

\* An upload that was refused.
Rejected(r, a) == r.op = "upload" /\ a.status # 200

\* C10: once upload_file has answered 200 for a name, its file is stored
\* and no later get_data for that name answers 404; a refused upload,
\* list_files and get_data leave the stored files as they were.
C10_UploadedStaysServed ==
    [][ /\ \A f \in acked' : secure_filename(f) \in DOMAIN uploads'
        /\ (req'.op = "data"
              /\ (IF req'.filename = None THEN DEFAULT_NIFTY_FILE ELSE req'.filename) \in acked)
           => resp'.status # 404
        /\ (Rejected(req', resp') \/ req'.op \in {"files", "data"})
           => uploads' = uploads ]_vars

\* C10 witness: a data request, answered 200, for a name that was uploaded
\* and that secure_filename rewrites.
C10_Witness ==
    /\ req.op = "data"
    /\ req.filename \in acked
    /\ secure_filename(req.filename) # req.filename
    /\ resp.status = 200

====
